---- MODULE Spec2Model ----
(***************************************************************************)
(* Model of src/index.js: an Express service that keeps a list of product  *)
(* records (`productos`) in memory and serves list / get / create /        *)
(* replace-or-upsert / partial update / delete requests.                   *)
(*                                                                         *)
(* Each request handler runs to completion (no await, no callback), so one *)
(* action models one whole handler.                                        *)
(*                                                                         *)
(* Representation of JavaScript values                                     *)
(*   A value is a record [t, n, s]: t is the class of the value, n the     *)
(*   payload of a finite number and s the characters of a string.          *)
(*   Finite numbers are counted in tenths (15.5 is n = 155), so that the   *)
(*   seed price 15.5 and the query string "15.5" are integers here.        *)
(*   Strings are sequences of one-character strings.                       *)
(*   A body or query key that is absent reads as Undefined, as in JS; JSON *)
(*   cannot carry undefined, so a key holding Undefined is an absent key.  *)
(*   A missing body behaves as the body with every key absent (body?.k is  *)
(*   undefined, Object.keys(body || {}) is empty).                         *)
(*   Error messages are written in ASCII ("nombre invalido" stands for     *)
(*   'nombre inválido').                                                   *)
(*                                                                         *)
(* History                                                                 *)
(*   req, res and prev record the request being served, its response and   *)
(*   the collection as it was when the request arrived; Respond clears     *)
(*   them once the response is sent.  handled counts the requests served.  *)
(***************************************************************************)
EXTENDS Integers, Sequences, FiniteSets, TLC

VARIABLES productos, uuids, req, res, prev, handled

vars == <<productos, uuids, req, res, prev, handled>>

(* Number of requests handled in one run. *)
MaxRequests == 2

----------------------------------------------------------------------------
(* JavaScript values *)

Undefined == [t |-> "undefined", n |-> 0, s |-> <<>>]
Null == [t |-> "null", n |-> 0, s |-> <<>>]
True == [t |-> "true", n |-> 0, s |-> <<>>]
False == [t |-> "false", n |-> 0, s |-> <<>>]
NaN == [t |-> "NaN", n |-> 0, s |-> <<>>]
Infinity == [t |-> "Infinity", n |-> 0, s |-> <<>>]
NegInfinity == [t |-> "-Infinity", n |-> 0, s |-> <<>>]
Num(k) == [t |-> "number", n |-> k, s |-> <<>>]
Str(cs) == [t |-> "string", n |-> 0, s |-> cs]
Bool(b) == IF b THEN True ELSE False

(* typeof v *)
TypeOf(v) ==
  CASE v.t \in {"true", "false"} -> "boolean"
    [] v.t \in {"number", "NaN", "Infinity", "-Infinity"} -> "number"
    [] v.t = "null" -> "object"
    [] OTHER -> v.t

Whitespace == {" "}

(* String.prototype.trim *)
RECURSIVE TrimStart(_)
TrimStart(cs) ==
  IF cs # <<>> /\ Head(cs) \in Whitespace THEN TrimStart(Tail(cs)) ELSE cs

RECURSIVE TrimEnd(_)
TrimEnd(cs) ==
  IF cs # <<>> /\ cs[Len(cs)] \in Whitespace
  THEN TrimEnd(SubSeq(cs, 1, Len(cs) - 1))
  ELSE cs

trim(cs) == TrimEnd(TrimStart(cs))

DigitValue == [c \in {"0", "1", "2", "3", "4", "5", "6", "7", "8", "9"} |->
  CASE c = "0" -> 0 [] c = "1" -> 1 [] c = "2" -> 2 [] c = "3" -> 3
    [] c = "4" -> 4 [] c = "5" -> 5 [] c = "6" -> 6 [] c = "7" -> 7
    [] c = "8" -> 8 [] c = "9" -> 9]

IsDigits(cs) == cs # <<>> /\ \A i \in 1..Len(cs) : cs[i] \in DOMAIN DigitValue

RECURSIVE DigitsValue(_)
DigitsValue(cs) ==
  IF cs = <<>> THEN 0
  ELSE 10 * DigitsValue(SubSeq(cs, 1, Len(cs) - 1)) + DigitValue[cs[Len(cs)]]

(* Number(s) for a string s, on the strings made of digits, at most one    *)
(* "." followed by one digit, letters and blanks: surrounding whitespace   *)
(* is ignored, the empty string is 0, a decimal literal is its value (in   *)
(* tenths) and anything else is NaN.                                       *)
StringToNumber(cs) ==
  LET t == trim(cs)
      n == Len(t)
  IN  IF t = <<>> THEN Num(0)
      ELSE IF IsDigits(t) THEN Num(10 * DigitsValue(t))
      ELSE IF n >= 3 /\ t[n - 1] = "." /\ IsDigits(SubSeq(t, 1, n - 2))
                /\ t[n] \in DOMAIN DigitValue
        THEN Num(10 * DigitsValue(SubSeq(t, 1, n - 2)) + DigitValue[t[n]])
      ELSE NaN

(* Number(v): ToNumber of any value *)
Number(v) ==
  CASE v.t = "string" -> StringToNumber(v.s)
    [] v.t = "undefined" -> NaN
    [] v.t = "null" -> Num(0)
    [] v.t = "true" -> Num(10)
    [] v.t = "false" -> Num(0)
    [] OTHER -> v

(* a < b on numbers; false when either is NaN *)
NumLt(a, b) ==
  /\ a.t # "NaN" /\ b.t # "NaN"
  /\ \/ a.t = "-Infinity" /\ b.t # "-Infinity"
     \/ a.t = "number" /\ b.t = "Infinity"
     \/ a.t = "number" /\ b.t = "number" /\ a.n < b.n

NumEq(a, b) == a.t # "NaN" /\ b.t # "NaN" /\ a = b

(* The relational operators of the source, all on numeric operands *)
Lt(a, b) == NumLt(Number(a), Number(b))
Geq(a, b) == NumLt(Number(b), Number(a)) \/ NumEq(Number(a), Number(b))
Leq(a, b) == NumLt(Number(a), Number(b)) \/ NumEq(Number(a), Number(b))

(* String(v) of a query value, which is a string here: the string itself *)
String(v) == v.s

----------------------------------------------------------------------------
(* Validation utilities *)

isBoolean(v) == TypeOf(v) = "boolean"

isNumber(v) == TypeOf(v) = "number" /\ v.t # "NaN"

validKeys == {"nombre", "precio", "stock", "activo"}

NoError == "null"

(* Variant: the sign of price and stock is not checked *)
validarSinSigno(body) ==
  IF TypeOf(body.nombre) # "string" \/ trim(body.nombre.s) = <<>>
    THEN "nombre invalido"
  ELSE IF ~isNumber(body.precio) THEN "precio invalido"
  ELSE IF ~isNumber(body.stock) THEN "stock invalido"
  ELSE IF ~isBoolean(body.activo) THEN "activo invalido"
  ELSE NoError

validarProductoCompleto(body) ==
  IF TypeOf(body.nombre) # "string" \/ trim(body.nombre.s) = <<>>
    THEN "nombre invalido"
  ELSE IF ~isNumber(body.precio) \/ Lt(body.precio, Num(0))
    THEN "precio invalido"
  ELSE IF ~isNumber(body.stock) \/ Lt(body.stock, Num(0))
    THEN "stock invalido"
  ELSE IF ~isBoolean(body.activo)
    THEN "activo invalido"
  ELSE NoError

(* Object.keys(body): the keys the body carries *)
Keys(body) == {k \in DOMAIN body : body[k] # Undefined}

(* Variant: every submitted key is kept *)
limpiarNada(body) == [k \in Keys(body) |-> body[k]]

limpiarPatch(body) ==
  [k \in {k \in Keys(body) : k \in validKeys} |-> body[k]]

----------------------------------------------------------------------------
(* The collection *)

Producto(id, nombre, precio, stock, activo) ==
  [id |-> id, nombre |-> nombre, precio |-> precio, stock |-> stock,
   activo |-> activo]

UuidChars == <<"1", "2", "3", "4", "5", "6", "7", "8", "9">>

(* crypto.randomUUID(): the k-th identifier the generator hands out.  The  *)
(* generator is taken to be collision free: it never repeats itself, and   *)
(* no client names an identifier before the generator has produced it.     *)
randomUUID(k) == Str(<<"u", UuidChars[k]>>)

Semilla ==
  << Producto(randomUUID(1), Str(<<"L", "a", "p", "i", "c", "e", "r", "o">>),
              Num(155), Num(1000), True),
     Producto(randomUUID(2), Str(<<"C", "u", "a", "d", "e", "r", "n", "o">>),
              Num(450), Num(500), True) >>

(* Array.prototype.findIndex(p => p.id === id): first match, or -1 *)
findIndex(ps, id) ==
  IF \E i \in 1..Len(ps) : ps[i].id = id
  THEN CHOOSE i \in 1..Len(ps) :
         ps[i].id = id /\ \A j \in 1..(i - 1) : ps[j].id # id
  ELSE -1

(* { ...p, ...c }: the keys of c override those of p *)
Spread(p, c) ==
  [k \in DOMAIN p \cup DOMAIN c |-> IF k \in DOMAIN c THEN c[k] ELSE p[k]]

----------------------------------------------------------------------------
(* Requests and responses *)

NoQuery == [minPrecio |-> Undefined, maxPrecio |-> Undefined, activo |-> Undefined]

NoBody ==
  [id |-> Undefined, nombre |-> Undefined, precio |-> Undefined,
   stock |-> Undefined, activo |-> Undefined]

Request(m, id, body, q) == [method |-> m, id |-> id, body |-> body, query |-> q]

(* res.status(st).json({ error: e }) *)
Failure(st, e) == [status |-> st, error |-> e, body |-> <<>>, location |-> Undefined]

(* res.status(st).json(ps) / .send(): ps is the list of records of the body *)
Success(st, ps, loc) == [status |-> st, error |-> NoError, body |-> ps, location |-> loc]

StrTrue == <<"t", "r", "u", "e">>
StrFalse == <<"f", "a", "l", "s", "e">>

(* Variant: maxPrecio is an exclusive bound *)
ListResponseExclusive(ps, q) ==
  LET minOk(p) == Geq(p.precio, Number(q.minPrecio))
      maxOk(p) == Lt(p.precio, Number(q.maxPrecio))
      actOk(p) == p.activo = Bool(String(q.activo) = StrTrue)
      out1 == IF q.minPrecio # Undefined THEN SelectSeq(ps, minOk) ELSE ps
      out2 == IF q.maxPrecio # Undefined THEN SelectSeq(out1, maxOk) ELSE out1
      out3 == IF q.activo # Undefined THEN SelectSeq(out2, actOk) ELSE out2
  IN  IF q.minPrecio # Undefined /\ Number(q.minPrecio) = NaN
        THEN Failure(400, "minPrecio debe ser numerico")
      ELSE IF q.maxPrecio # Undefined /\ Number(q.maxPrecio) = NaN
        THEN Failure(400, "maxPrecio debe ser numerico")
      ELSE IF q.activo # Undefined /\ String(q.activo) \notin {StrTrue, StrFalse}
        THEN Failure(400, "activo debe ser true o false")
      ELSE Success(200, out3, Undefined)

(* GET /productos: the response for query q over the collection ps *)
ListResponse(ps, q) ==
  LET minOk(p) == Geq(p.precio, Number(q.minPrecio))
      maxOk(p) == Leq(p.precio, Number(q.maxPrecio))
      actOk(p) == p.activo = Bool(String(q.activo) = StrTrue)
      out1 == IF q.minPrecio # Undefined THEN SelectSeq(ps, minOk) ELSE ps
      out2 == IF q.maxPrecio # Undefined THEN SelectSeq(out1, maxOk) ELSE out1
      out3 == IF q.activo # Undefined THEN SelectSeq(out2, actOk) ELSE out2
  IN  IF q.minPrecio # Undefined /\ Number(q.minPrecio) = NaN
        THEN Failure(400, "minPrecio debe ser numerico")
      ELSE IF q.maxPrecio # Undefined /\ Number(q.maxPrecio) = NaN
        THEN Failure(400, "maxPrecio debe ser numerico")
      ELSE IF q.activo # Undefined /\ String(q.activo) \notin {StrTrue, StrFalse}
        THEN Failure(400, "activo debe ser true o false")
      ELSE Success(200, out3, Undefined)

NoRequest == Request("NONE", Undefined, NoBody, NoQuery)
NoResponse == Success(0, <<>>, Undefined)

(* A request is taken when no other is being served (one at a time) *)
Idle == req = NoRequest /\ handled < MaxRequests

(* Every handler leaves behind the request it served and the collection as *)
(* it was when the request arrived.                                        *)
Handled(r) ==
  /\ handled' = handled + 1
  /\ req' = r
  /\ prev' = productos

ListProductos(q) ==
  /\ Handled(Request("LIST", Undefined, NoBody, q))
  /\ res' = ListResponse(productos, q)
  /\ UNCHANGED <<productos, uuids>>

(* GET /productos/:id: the response for id over the collection ps *)
GetResponse(ps, id) ==
  LET idx == findIndex(ps, id)
  IN  IF idx = -1 THEN Failure(404, "No encontrado")
      ELSE Success(200, <<ps[idx]>>, Undefined)

GetProducto(id) ==
  /\ Handled(Request("GET", id, NoBody, NoQuery))
  /\ res' = GetResponse(productos, id)
  /\ UNCHANGED <<productos, uuids>>

(* Variant: the name is stored as submitted *)
PostSinTrim(body) ==
  /\ Handled(Request("POST", Undefined, body, NoQuery))
  /\ LET err == validarProductoCompleto(body)
         nuevo == Producto(randomUUID(uuids + 1), body.nombre,
                           body.precio, body.stock, body.activo)
     IN  IF err # NoError
         THEN /\ res' = Failure(422, err)
              /\ UNCHANGED <<productos, uuids>>
         ELSE /\ uuids' = uuids + 1
              /\ productos' = Append(productos, nuevo)
              /\ res' = Success(201, <<nuevo>>, nuevo.id)

PostProducto(body) ==
  /\ Handled(Request("POST", Undefined, body, NoQuery))
  /\ LET err == validarProductoCompleto(body)
         nuevo == Producto(randomUUID(uuids + 1), Str(trim(body.nombre.s)),
                           body.precio, body.stock, body.activo)
     IN  IF err # NoError
         THEN /\ res' = Failure(422, err)
              /\ UNCHANGED <<productos, uuids>>
         ELSE /\ uuids' = uuids + 1
              /\ productos' = Append(productos, nuevo)
              /\ res' = Success(201, <<nuevo>>, nuevo.id)

(* Variant: no upsert, a missing id is not found *)
PutSinUpsert(id, body) ==
  /\ Handled(Request("PUT", id, body, NoQuery))
  /\ LET err == validarProductoCompleto(body)
         idx == findIndex(productos, id)
         reemplazo == Producto(id, Str(trim(body.nombre.s)),
                               body.precio, body.stock, body.activo)
     IN  IF err # NoError
         THEN /\ res' = Failure(422, err)
              /\ UNCHANGED productos
         ELSE IF idx = -1
         THEN /\ res' = Failure(404, "No encontrado")
              /\ UNCHANGED productos
         ELSE /\ productos' = [productos EXCEPT ![idx] = reemplazo]
              /\ res' = Success(200, <<reemplazo>>, Undefined)
  /\ UNCHANGED uuids

(* Variant: the record is always appended *)
PutSiempreAgrega(id, body) ==
  /\ Handled(Request("PUT", id, body, NoQuery))
  /\ LET err == validarProductoCompleto(body)
         reemplazo == Producto(id, Str(trim(body.nombre.s)),
                               body.precio, body.stock, body.activo)
     IN  IF err # NoError
         THEN /\ res' = Failure(422, err)
              /\ UNCHANGED productos
         ELSE /\ productos' = Append(productos, reemplazo)
              /\ res' = Success(201, <<reemplazo>>, reemplazo.id)
  /\ UNCHANGED uuids

PutProducto(id, body) ==
  /\ Handled(Request("PUT", id, body, NoQuery))
  /\ LET err == validarProductoCompleto(body)
         idx == findIndex(productos, id)
         reemplazo == Producto(id, Str(trim(body.nombre.s)),
                               body.precio, body.stock, body.activo)
     IN  IF err # NoError
         THEN /\ res' = Failure(422, err)
              /\ UNCHANGED productos
         ELSE IF idx = -1
         THEN /\ productos' = Append(productos, reemplazo)
              /\ res' = Success(201, <<reemplazo>>, reemplazo.id)
         ELSE /\ productos' = [productos EXCEPT ![idx] = reemplazo]
              /\ res' = Success(200, <<reemplazo>>, Undefined)
  /\ UNCHANGED uuids

(* The field checks of PATCH on the cleaned body, first failure first *)
PatchError(cambios) ==
  IF "nombre" \in DOMAIN cambios
       /\ (TypeOf(cambios.nombre) # "string" \/ trim(cambios.nombre.s) = <<>>)
    THEN "nombre invalido"
  ELSE IF "precio" \in DOMAIN cambios
       /\ (~isNumber(cambios.precio) \/ Lt(cambios.precio, Num(0)))
    THEN "precio invalido"
  ELSE IF "stock" \in DOMAIN cambios
       /\ (~isNumber(cambios.stock) \/ Lt(cambios.stock, Num(0)))
    THEN "stock invalido"
  ELSE IF "activo" \in DOMAIN cambios /\ ~isBoolean(cambios.activo)
    THEN "activo invalido"
  ELSE NoError

(* cambios.nombre = cambios.nombre.trim() *)
TrimNombre(cambios) ==
  IF "nombre" \in DOMAIN cambios
  THEN [cambios EXCEPT !.nombre = Str(trim(cambios.nombre.s))]
  ELSE cambios

(* Variant: each field is written as soon as it has passed its check *)
PatchCampoPorCampo(id, body) ==
  /\ Handled(Request("PATCH", id, body, NoQuery))
  /\ LET idx == findIndex(productos, id)
         cambios == limpiarPatch(body)
         err == PatchError(cambios)
         passed == CASE err = "nombre invalido" -> {}
                     [] err = "precio invalido" -> {"nombre"}
                     [] err = "stock invalido" -> {"nombre", "precio"}
                     [] err = "activo invalido" -> {"nombre", "precio", "stock"}
                     [] OTHER -> validKeys
         written == [k \in DOMAIN cambios \cap passed |-> TrimNombre(cambios)[k]]
     IN  IF idx = -1
         THEN /\ res' = Failure(404, "No encontrado")
              /\ UNCHANGED productos
         ELSE /\ productos' = [productos EXCEPT
                                 ![idx] = Spread(productos[idx], written)]
              /\ res' = IF err # NoError THEN Failure(422, err)
                        ELSE Success(200, <<productos'[idx]>>, Undefined)
  /\ UNCHANGED uuids

(* Variant: the fields are checked before the record is looked up *)
PatchValidaPrimero(id, body) ==
  /\ Handled(Request("PATCH", id, body, NoQuery))
  /\ LET idx == findIndex(productos, id)
         cambios == limpiarPatch(body)
         err == PatchError(cambios)
     IN  IF err # NoError
         THEN /\ res' = Failure(422, err)
              /\ UNCHANGED productos
         ELSE IF idx = -1
         THEN /\ res' = Failure(404, "No encontrado")
              /\ UNCHANGED productos
         ELSE /\ productos' = [productos EXCEPT
                                 ![idx] = Spread(productos[idx], TrimNombre(cambios))]
              /\ res' = Success(200, <<productos'[idx]>>, Undefined)
  /\ UNCHANGED uuids

PatchProducto(id, body) ==
  /\ Handled(Request("PATCH", id, body, NoQuery))
  /\ LET idx == findIndex(productos, id)
         cambios == limpiarPatch(body)
         err == PatchError(cambios)
     IN  IF idx = -1
         THEN /\ res' = Failure(404, "No encontrado")
              /\ UNCHANGED productos
         ELSE IF err # NoError
         THEN /\ res' = Failure(422, err)
              /\ UNCHANGED productos
         ELSE /\ productos' = [productos EXCEPT
                                 ![idx] = Spread(productos[idx], TrimNombre(cambios))]
              /\ res' = Success(200, <<productos'[idx]>>, Undefined)
  /\ UNCHANGED uuids

(* Variant: the filter keeps the record it should drop *)
DeleteFilterInvertido(ps, id) ==
  LET keep(p) == p.id = id
  IN  SelectSeq(ps, keep)

(* productos.filter(p => p.id !== id) *)
DeleteFilter(ps, id) ==
  LET keep(p) == p.id # id
  IN  SelectSeq(ps, keep)

(* DELETE /productos/:id: the response for id over the collection ps *)
DeleteResponse(ps, id) ==
  IF Len(DeleteFilter(ps, id)) = Len(ps)
  THEN Failure(404, "No encontrado")
  ELSE Success(204, <<>>, Undefined)

DeleteProducto(id) ==
  /\ Handled(Request("DELETE", id, NoBody, NoQuery))
  /\ productos' = DeleteFilter(productos, id)
  /\ res' = DeleteResponse(productos, id)
  /\ UNCHANGED uuids

(* The response has been sent: the service waits for the next request *)
Respond ==
  /\ req # NoRequest
  /\ req' = NoRequest
  /\ res' = NoResponse
  /\ prev' = productos
  /\ UNCHANGED <<productos, uuids, handled>>

----------------------------------------------------------------------------
(* The requests a client sends *)

(* Per key: absent, a value the checks refuse, values they accept *)
NombreInputs == {Undefined, Str(<<>>), Str(<<" ">>), Str(<<" ", "a", " ">>)}
PrecioInputs == {Undefined, Num(-10), Num(0), Infinity}
StockInputs == {Undefined, Null, Num(-10), Num(30)}
ActivoInputs == {Undefined, False, Str(StrTrue)}

(* Identifiers a client can name: any the generator has produced, or its own *)
ClientIds == {Str(<<"c">>)}
TargetIds == {randomUUID(k) : k \in 1..uuids} \cup ClientIds

Bodies ==
  [id : {Undefined}, nombre : NombreInputs, precio : PrecioInputs,
   stock : StockInputs, activo : ActivoInputs]

PatchBodies ==
  [id : {Undefined} \cup ClientIds, nombre : NombreInputs, precio : PrecioInputs,
   stock : StockInputs, activo : ActivoInputs]

PriceQueries ==
  {Undefined, Str(<<"a", "b", "c">>), Str(<<>>), Str(<<"1", "5", ".", "5">>),
   Str(<<"2", "0">>), Str(<<" ", "4", "5">>)}
ActivoQueries == {Undefined, Str(StrTrue), Str(StrFalse), Str(<<"1">>)}

Queries == [minPrecio : PriceQueries, maxPrecio : PriceQueries, activo : ActivoQueries]

Init ==
  /\ productos = Semilla
  /\ uuids = 2
  /\ req = NoRequest
  /\ res = NoResponse
  /\ prev = Semilla
  /\ handled = 0

Next ==
  \/ Idle /\ \E q \in Queries : ListProductos(q)
  \/ Idle /\ \E id \in TargetIds : GetProducto(id)
  \/ Idle /\ \E body \in Bodies : PostProducto(body)
  \/ Idle /\ \E id \in TargetIds, body \in Bodies : PutProducto(id, body)
  \/ Idle /\ \E id \in TargetIds, body \in PatchBodies : PatchProducto(id, body)
  \/ Idle /\ \E id \in TargetIds : DeleteProducto(id)
  \/ Respond

Spec == Init /\ [][Next]_vars

----------------------------------------------------------------------------
(* The full-record validation on its own: every candidate a JSON body, or  *)
(* any caller of the function, can present.                                *)

NombreCandidates ==
  {Undefined, Null, Num(70), Str(<<>>), Str(<<" ">>), Str(<<" ", " ">>),
   Str(<<" ", "a", " ">>), Str(<<"b">>)}
NumberCandidates ==
  {Undefined, Null, True, Str(<<"1">>), NaN, NegInfinity, Num(-10), Num(-1),
   Num(0), Num(155), Infinity}
ActivoCandidates ==
  {Undefined, Null, True, False, Str(StrTrue), Num(0), Num(10)}

Candidates ==
  [id : {Undefined}, nombre : NombreCandidates, precio : NumberCandidates,
   stock : NumberCandidates, activo : ActivoCandidates]

InitValidar ==
  /\ productos = Semilla
  /\ uuids = 2
  /\ req \in {Request("VALIDAR", Undefined, body, NoQuery) : body \in Candidates}
  /\ res = NoResponse
  /\ prev = Semilla
  /\ handled = 0

(* const err = validarProductoCompleto(req.body);                           *)
(* if (err) return res.status(422).json({ error: err });                    *)
Validar ==
  /\ req.method = "VALIDAR"
  /\ res = NoResponse
  /\ LET err == validarProductoCompleto(req.body)
     IN  res' = IF err # NoError THEN Failure(422, err)
                ELSE Success(200, <<>>, Undefined)
  /\ UNCHANGED <<productos, uuids, req, prev, handled>>

SpecValidar == InitValidar /\ [][Validar]_vars

----------------------------------------------------------------------------
(* What the specification says of a stored record, stated without the      *)
(* operators the handlers use.                                             *)

Ids(ps) == {ps[i].id : i \in 1..Len(ps)}

AllBlank(cs) == \A i \in 1..Len(cs) : cs[i] \in Whitespace

(* t is s without its leading and trailing whitespace *)
IsTrimOf(t, s) ==
  /\ t = <<>> \/ (t[1] \notin Whitespace /\ t[Len(t)] \notin Whitespace)
  /\ \E i \in 0..Len(s) :
       /\ i + Len(t) <= Len(s)
       /\ t = SubSeq(s, i + 1, i + Len(t))
       /\ AllBlank(SubSeq(s, 1, i))
       /\ AllBlank(SubSeq(s, i + Len(t) + 1, Len(s)))

NameOk(v) == v.t = "string" /\ ~AllBlank(v.s)
NonNegative(v) == v.t = "Infinity" \/ (v.t = "number" /\ v.n >= 0)
FiniteNonNegative(v) == v.t = "number" /\ v.n >= 0
FlagOk(v) == v \in {True, False}

(* p carries the four fields of body, the name trimmed *)
CarriesFields(p, body) ==
  /\ p.nombre.t = "string" /\ IsTrimOf(p.nombre.s, body.nombre.s)
  /\ p.precio = body.precio
  /\ p.stock = body.stock
  /\ p.activo = body.activo

(* ps without its i-th element *)
Without(ps, i) == SubSeq(ps, 1, i - 1) \o SubSeq(ps, i + 1, Len(ps))

----------------------------------------------------------------------------
(* C1: in every reachable state every stored product has price >= 0,       *)
(* stock >= 0 and a name that is a string, non-empty after trimming.       *)
StoredFieldsValid ==
  \A i \in 1..Len(productos) :
    /\ NameOk(productos[i].nombre)
    /\ NonNegative(productos[i].precio)
    /\ NonNegative(productos[i].stock)

(* A PATCH carrying a price has just been applied to a stored record *)
WitnessStoredFieldsValid ==
  /\ req.method = "PATCH" /\ res.status = 200
  /\ req.body.precio # Undefined
  /\ productos # prev

(* C2: in every reachable state no two records have the same id.           *)
UniqueIds ==
  \A i, j \in 1..Len(productos) :
    productos[i].id = productos[j].id => i = j

(* A PUT has just re-created a record under the id of a deleted seed       *)
WitnessUniqueIds ==
  /\ req.method = "PUT" /\ res.status = 201
  /\ req.id = randomUUID(1)
  /\ Len(productos) = 2

(* C3: a request rejected with 400 or 422 leaves the collection exactly as *)
(* it was: same records, same values, same order.                          *)
RejectedLeavesCollection ==
  res.status \in {400, 422} => productos = prev /\ Len(res.body) = 0

(* A PATCH on a stored record was rejected for its stock although the name *)
(* and the price it carried were acceptable                                *)
WitnessRejectedLeavesCollection ==
  /\ req.method = "PATCH" /\ res.status = 422
  /\ res.error = "stock invalido"
  /\ NameOk(req.body.nombre) /\ NonNegative(req.body.precio)
  /\ req.id \in Ids(prev)

(* C4: a PUT never answers not-found; with a valid full record it is       *)
(* accepted, and an accepted PUT appends one record with the target id     *)
(* (201) when no record had it, and otherwise overwrites the four fields   *)
(* of that record in place, keeping id, length and the other records (200).*)
PutUpserts ==
  req.method = "PUT" =>
    /\ res.status \in {200, 201, 422}
    /\ ( NameOk(req.body.nombre) /\ FiniteNonNegative(req.body.precio)
         /\ FiniteNonNegative(req.body.stock) /\ FlagOk(req.body.activo)
         => res.status # 422 )
    /\ res.status # 422 =>
         IF req.id \notin Ids(prev)
         THEN /\ res.status = 201
              /\ Len(productos) = Len(prev) + 1
              /\ SubSeq(productos, 1, Len(prev)) = prev
              /\ productos[Len(productos)].id = req.id
              /\ CarriesFields(productos[Len(productos)], req.body)
              /\ res.body = <<productos[Len(productos)]>>
         ELSE /\ res.status = 200
              /\ Len(productos) = Len(prev)
              /\ \A i \in 1..Len(prev) :
                   IF prev[i].id = req.id
                   THEN /\ productos[i].id = req.id
                        /\ CarriesFields(productos[i], req.body)
                        /\ res.body = <<productos[i]>>
                   ELSE productos[i] = prev[i]

(* A PUT on an id no record had has just created the record *)
WitnessPutUpserts ==
  /\ req.method = "PUT" /\ res.status = 201
  /\ req.id \in ClientIds
  /\ Len(productos) = Len(prev) + 1

(* C5: a PATCH whose target id is not in the collection answers 404 and    *)
(* leaves the collection unchanged, whatever its body.                     *)
PatchMissingIsNotFound ==
  req.method = "PATCH" /\ req.id \notin Ids(prev) =>
    res.status = 404 /\ productos = prev

(* A PATCH with an unacceptable name on an id no record has *)
WitnessPatchMissingIsNotFound ==
  /\ req.method = "PATCH" /\ req.id \notin Ids(prev)
  /\ req.body.nombre # Undefined /\ ~NameOk(req.body.nombre)

(* C6: a successful PATCH changes only the recognized fields present in    *)
(* the submission: absent fields keep their value, the id and the position *)
(* of the record are kept, no key is added, other records are unchanged.   *)
PatchChangesOnlySubmitted ==
  req.method = "PATCH" /\ res.status = 200 =>
    /\ Len(productos) = Len(prev)
    /\ req.id \in Ids(prev)
    /\ \A i \in 1..Len(prev) :
         IF prev[i].id = req.id
         THEN /\ DOMAIN productos[i] = DOMAIN prev[i]
              /\ productos[i].id = prev[i].id
              /\ IF req.body.nombre = Undefined
                 THEN productos[i].nombre = prev[i].nombre
                 ELSE /\ productos[i].nombre.t = "string"
                      /\ IsTrimOf(productos[i].nombre.s, req.body.nombre.s)
              /\ \A k \in {"precio", "stock", "activo"} :
                   productos[i][k] =
                     IF req.body[k] = Undefined THEN prev[i][k] ELSE req.body[k]
              /\ res.body = <<productos[i]>>
         ELSE productos[i] = prev[i]

(* A PATCH carrying an id key and a stock, and nothing else, was applied *)
WitnessPatchChangesOnlySubmitted ==
  /\ req.method = "PATCH" /\ res.status = 200
  /\ req.body.id # Undefined /\ req.body.stock # Undefined
  /\ req.body.nombre = Undefined /\ req.body.precio = Undefined
  /\ req.body.activo = Undefined
  /\ productos # prev

(* C7: a DELETE of a stored id answers 204 and removes exactly that record,*)
(* keeping the others in order; from then on a DELETE of the same id       *)
(* answers 404 and changes nothing, and a GET of it answers 404.           *)
DeleteRemovesOnce ==
  req.method = "DELETE" =>
    IF req.id \in Ids(prev)
    THEN /\ res.status = 204
         /\ \E i \in 1..Len(prev) :
              prev[i].id = req.id /\ productos = Without(prev, i)
         /\ DeleteResponse(productos, req.id).status = 404
         /\ DeleteFilter(productos, req.id) = productos
         /\ GetResponse(productos, req.id).status = 404
    ELSE res.status = 404 /\ productos = prev

(* The second DELETE of a seed record: the first removed it *)
WitnessDeleteRemovesOnce ==
  /\ req.method = "DELETE" /\ res.status = 404
  /\ req.id = randomUUID(1)
  /\ Len(productos) = 1

(* C8: with well-formed filters the list answers 200 with exactly the      *)
(* records that satisfy every present filter, in the collection's order    *)
(* (all of them when no filter is present), and never changes the          *)
(* collection.                                                             *)
ListReturnsMatching ==
  req.method = "LIST" =>
    /\ productos = prev
    /\ LET q == req.query
           hasMin == q.minPrecio # Undefined
           hasMax == q.maxPrecio # Undefined
           hasAct == q.activo # Undefined
           matches(p) ==
             /\ hasMin => Geq(p.precio, Number(q.minPrecio))
             /\ hasMax => Leq(p.precio, Number(q.maxPrecio))
             /\ hasAct => (p.activo = True <=> q.activo.s = StrTrue)
       IN  ( /\ hasMin => Number(q.minPrecio) # NaN
             /\ hasMax => Number(q.maxPrecio) # NaN
             /\ hasAct => q.activo.s \in {StrTrue, StrFalse} )
           => /\ res.status = 200
              /\ res.body = SelectSeq(prev, matches)
              /\ (~hasMin /\ ~hasMax /\ ~hasAct) => res.body = prev

(* A list with the three filters present that keeps one record and drops   *)
(* another                                                                 *)
WitnessListReturnsMatching ==
  /\ req.method = "LIST" /\ res.status = 200
  /\ req.query.minPrecio # Undefined /\ req.query.maxPrecio # Undefined
  /\ req.query.activo # Undefined
  /\ Len(res.body) > 0 /\ Len(res.body) < Len(prev)

(* C9: a POST answered 201 appended one record whose id no stored record   *)
(* had, carrying the submitted price, stock and flag and the submitted     *)
(* name trimmed; a GET of the returned id answers 200 with that record.    *)
PostThenGet ==
  req.method = "POST" /\ res.status = 201 =>
    /\ Len(res.body) = 1
    /\ res.body[1].id \notin Ids(prev)
    /\ res.location = res.body[1].id
    /\ productos = Append(prev, res.body[1])
    /\ CarriesFields(res.body[1], req.body)
    /\ GetResponse(productos, res.body[1].id) = Success(200, <<res.body[1]>>, Undefined)

(* A POST whose name had surrounding blanks was accepted *)
WitnessPostThenGet ==
  /\ req.method = "POST" /\ res.status = 201
  /\ req.body.nombre.s # res.body[1].nombre.s

(* C10: the full-record validation accepts a candidate only when name is a *)
(* string non-empty after trimming, price and stock are finite numbers     *)
(* >= 0 and active is a boolean, and otherwise reports the first failing   *)
(* field in the order name, price, stock, active.                          *)
ExpectedError(body) ==
  IF ~NameOk(body.nombre) THEN "nombre invalido"
  ELSE IF ~FiniteNonNegative(body.precio) THEN "precio invalido"
  ELSE IF ~FiniteNonNegative(body.stock) THEN "stock invalido"
  ELSE IF ~FlagOk(body.activo) THEN "activo invalido"
  ELSE NoError

ValidationFirstFailure ==
  req.method = "VALIDAR" /\ res # NoResponse =>
    res.error = ExpectedError(req.body)

====
